---- MODULE Spec2Model ----
(***************************************************************************)
(* The line-following flight controller of wise_tello_multiplecolor_Hf.py  *)
(* (class WiseTelloHough) as a state machine.                              *)
(*                                                                         *)
(* The controller object is the record variable self, with the fields of   *)
(* the Python object under their source names.  Every method is an         *)
(* operator from a controller record (and the outcome of the hardware      *)
(* calls it makes) to the controller record it leaves behind.  The main    *)
(* loop of run() is cut at the places where it reads the outside world:    *)
(* the frame, the key, the battery sensor and the clock.                   *)
(*                                                                         *)
(* self.tello is the drone: the model keeps, as self.tello, the calls that *)
(* the last step made on it, in order, each with its outcome.              *)
(***************************************************************************)
EXTENDS Integers, Sequences, FiniteSets, TLC

VARIABLES
    pc,     \* where run() is: "frame", "keys", "battery", "flight_time", "cleanup", "done"
    now,    \* time.time()
    self,   \* the WiseTelloHough object
    hist    \* observer of the run: what happened, never read by the controller

vars == <<pc, now, self, hist>>

-----------------------------------------------------------------------------
(* VisionConfig / FlightConfig *)

AVAILABLE_COLORS == <<"white", "red", "green", "yellow", "blue">>
MIN_LINE_AREA == 500
CENTER_TOLERANCE == 50
CAMERA_WIDTH == 960
CAMERA_HEIGHT == 720
FPS == 30
FORWARD_SPEED == 40
SIDE_SPEED == 30
ROTATION_SPEED == 50
VERTICAL_SPEED == 30
ROTATION_THRESHOLD == 20
MAX_FLIGHT_TIME == 300
LOW_BATTERY_THRESHOLD == 20
EMERGENCY_BATTERY == 10
max_line_lost == 30

-----------------------------------------------------------------------------
(* Bounds of the model *)

\* Spec: no frame is processed after this many, and a frame without a line
\* is taken only while line_lost_count is below MaxLineLostCount
MaxFrames == 181
MaxLineLostCount == 3
\* SpecLineLost: the same two bounds, for runs that lose the line for long
LineLostFrames == 36
LineLostCount == 32
\* the clock does not run past this
MaxClock == 301
\* frames processed in the runs with fairness
FairFrames == 4
\* frames processed in the runs with colour and method switches
SwitchFrames == 3

-----------------------------------------------------------------------------
(* The outside world: frames, keys, battery readings, clock *)

None == [none |-> TRUE]

\* A frame, as far as detection goes: the external contours of its colour
\* mask (moments m00, m10, m01 and bounding box w, h) and the segments
\* HoughLinesP finds in it (x1, y1, x2, y2).
EmptyFrame == [contours |-> <<>>, lines |-> <<>>]
LineFrame ==
    [contours |-> <<[m00 |-> 1000, m10 |-> 560000, m01 |-> 360000, w |-> 40, h |-> 40]>>,
     lines |-> <<<<540, 360, 580, 360>>>>]

Frames == {EmptyFrame, LineFrame}

\* cv2.waitKey(1) & 0xFF, by the name of the key ("none": no key was pressed)
FlightKeys == {"none", "t", "l", "a", "s", "esc"}

\* tello.get_battery(): a percentage, or the call raises
ReadError == [error |-> TRUE]
BatteryLevels == {EMERGENCY_BATTERY - 1, EMERGENCY_BATTERY, LOW_BATTERY_THRESHOLD}
BatteryReadings == {[percent |-> b] : b \in BatteryLevels} \cup {ReadError}

Ticks == {0, MAX_FLIGHT_TIME + 1}

-----------------------------------------------------------------------------
(* The drone: the calls the last step made on self.tello *)

Zero == <<0, 0, 0, 0>>

Call(s, cmd, ok) == [s EXCEPT !.tello = Append(@, [cmd |-> cmd, ok |-> ok, rc |-> <<>>])]

CallRc(s, ok) ==
    [s EXCEPT !.tello = Append(@, [cmd |-> "send_rc_control", ok |-> ok,
        rc |-> <<s.left_right_velocity, s.for_back_velocity,
                 s.up_down_velocity, s.yaw_velocity>>])]

Velocity(s) ==
    <<s.left_right_velocity, s.for_back_velocity, s.up_down_velocity, s.yaw_velocity>>

Issued(s, cmd) == {i \in 1..Len(s.tello) : s.tello[i].cmd = cmd}

-----------------------------------------------------------------------------
(* Colour thresholding *)

\* HSV bounds (hue, saturation, value) of each colour
COLOR_RANGES ==
    [c \in {"white", "red", "green", "yellow", "blue"} |->
        CASE c = "white" -> [lower |-> <<0, 0, 200>>, upper |-> <<180, 30, 255>>]
          [] c = "red" -> [lower_1 |-> <<0, 120, 70>>, upper_1 |-> <<10, 255, 255>>,
                           lower_2 |-> <<170, 120, 70>>, upper_2 |-> <<180, 255, 255>>]
          [] c = "green" -> [lower |-> <<40, 120, 70>>, upper |-> <<80, 255, 255>>]
          [] c = "yellow" -> [lower |-> <<20, 120, 70>>, upper |-> <<40, 255, 255>>]
          [] c = "blue" -> [lower |-> <<100, 120, 70>>, upper |-> <<130, 255, 255>>]]

\* cv2.inRange on one pixel: 255 when every channel is within its bounds,
\* both ends included, 0 otherwise
inRange(hsv, lower, upper) ==
    IF \A i \in 1..3 : lower[i] <= hsv[i] /\ hsv[i] <= upper[i] THEN 255 ELSE 0

\* cv2.bitwise_or on one pixel of two masks, which hold 0 or 255
bitwise_or(mask1, mask2) == IF mask1 = 255 \/ mask2 = 255 THEN 255 ELSE 0

\* the mask that looks at the first pair of red bounds only
color_mask_first_range(hsv, selected_color) ==
    LET color_range == COLOR_RANGES[selected_color]
    IN  IF selected_color = "red"
        THEN inRange(hsv, color_range.lower_1, color_range.upper_1)
        ELSE inRange(hsv, color_range.lower, color_range.upper)

\* one pixel of color_mask before the morphological operations
color_mask(hsv, selected_color) ==
    LET color_range == COLOR_RANGES[selected_color]
    IN  IF selected_color = "red"
        THEN bitwise_or(inRange(hsv, color_range.lower_1, color_range.upper_1),
                        inRange(hsv, color_range.lower_2, color_range.upper_2))
        ELSE inRange(hsv, color_range.lower, color_range.upper)

-----------------------------------------------------------------------------
(* Detection *)

Abs(x) == IF x < 0 THEN -x ELSE x

\* np.arctan2(y, x) * 180 / np.pi, on the directions where it is a whole
\* number of degrees
arctan2_deg(y, x) ==
    CASE y = 0 /\ x >= 0 -> 0
      [] y = 0 /\ x < 0 -> 180
      [] x = 0 /\ y > 0 -> 90
      [] x = 0 /\ y < 0 -> -90
      [] x > 0 /\ y = x -> 45
      [] x > 0 /\ y = -x -> -45
      [] x < 0 /\ y = -x -> 135
      [] x < 0 /\ y = x -> -135

\* max(seq, key=...), on the keys of the elements: the index of the first
\* element whose key no other exceeds (best: the index held so far)
RECURSIVE FirstMax(_, _, _)
FirstMax(keys, i, best) ==
    IF i > Len(keys) THEN best
    ELSE FirstMax(keys, i + 1, IF keys[i] > keys[best] THEN i ELSE best)

contourArea(c) == c.m00
IsValidContour(c) == contourArea(c) > MIN_LINE_AREA

detect_line_contour(s, frame) ==
    LET valid_contours == SelectSeq(frame.contours, IsValidContour)
    IN  IF valid_contours = <<>> THEN [s EXCEPT !.line_detected = FALSE]
        ELSE LET main_contour == valid_contours[FirstMax(
                 [i \in 1..Len(valid_contours) |-> contourArea(valid_contours[i])], 1, 1)]
             IN  IF main_contour.m00 # 0
                 THEN [s EXCEPT !.line_center_x = main_contour.m10 \div main_contour.m00,
                                !.line_center_y = main_contour.m01 \div main_contour.m00,
                                !.line_angle = arctan2_deg(main_contour.h, main_contour.w),
                                !.line_detected = TRUE]
                 ELSE [s EXCEPT !.line_detected = FALSE]

\* the square of the length: sqrt is monotone
SegmentLength2(l) == (l[3] - l[1]) * (l[3] - l[1]) + (l[4] - l[2]) * (l[4] - l[2])

\* detect_line_hough that takes the first segment for the main line
detect_line_hough_first(s, frame) ==
    IF Len(frame.lines) > 0
    THEN LET main_line == frame.lines[1]
             x1 == main_line[1]
             y1 == main_line[2]
             x2 == main_line[3]
             y2 == main_line[4]
         IN  [s EXCEPT !.line_center_x = (x1 + x2) \div 2,
                       !.line_center_y = (y1 + y2) \div 2,
                       !.line_angle = arctan2_deg(y2 - y1, x2 - x1),
                       !.line_detected = TRUE]
    ELSE [s EXCEPT !.line_detected = FALSE]

detect_line_hough(s, frame) ==
    IF Len(frame.lines) > 0
    THEN LET main_line == frame.lines[FirstMax(
                 [i \in 1..Len(frame.lines) |-> SegmentLength2(frame.lines[i])], 1, 1)]
             x1 == main_line[1]
             y1 == main_line[2]
             x2 == main_line[3]
             y2 == main_line[4]
         IN  [s EXCEPT !.line_center_x = (x1 + x2) \div 2,
                       !.line_center_y = (y1 + y2) \div 2,
                       !.line_angle = arctan2_deg(y2 - y1, x2 - x1),
                       !.line_detected = TRUE]
    ELSE [s EXCEPT !.line_detected = FALSE]

detect_line(s, frame) ==
    IF s.detection_method = "hough"
    THEN detect_line_hough(s, frame)
    ELSE detect_line_contour(s, frame)

-----------------------------------------------------------------------------
(* Control *)

\* the lateral velocity with the tolerance itself outside the dead band
left_right_vel_inclusive(error_x) ==
    IF Abs(error_x) >= CENTER_TOLERANCE
    THEN (IF error_x > 0 THEN SIDE_SPEED ELSE -SIDE_SPEED)
    ELSE 0

\* the lateral velocity in proportion to the error
left_right_vel_proportional(error_x) ==
    IF Abs(error_x) > CENTER_TOLERANCE THEN error_x ELSE 0

left_right_vel(error_x) ==
    IF Abs(error_x) > CENTER_TOLERANCE
    THEN (IF error_x > 0 THEN SIDE_SPEED ELSE -SIDE_SPEED)
    ELSE 0

\* the vertical velocity that climbs towards a line below the centre
up_down_vel_flipped(error_y) ==
    IF Abs(error_y) > CENTER_TOLERANCE
    THEN (IF error_y > 0 THEN VERTICAL_SPEED ELSE -VERTICAL_SPEED)
    ELSE 0

up_down_vel(error_y) ==
    IF Abs(error_y) > CENTER_TOLERANCE
    THEN (IF error_y > 0 THEN -VERTICAL_SPEED ELSE VERTICAL_SPEED)
    ELSE 0

\* the forward velocity that still advances at 45 and at 135 degrees
forward_back_vel_inclusive(s) ==
    IF s.detection_method = "hough"
    THEN (IF Abs(s.line_angle) <= 45 THEN FORWARD_SPEED
          ELSE IF Abs(s.line_angle) >= 135 THEN FORWARD_SPEED
          ELSE 0)
    ELSE FORWARD_SPEED

forward_back_vel(s) ==
    IF s.detection_method = "hough"
    THEN (IF Abs(s.line_angle) < 45 THEN FORWARD_SPEED
          ELSE IF Abs(s.line_angle) > 135 THEN FORWARD_SPEED
          ELSE 0)
    ELSE FORWARD_SPEED

\* the yaw velocity that turns only for lines steeper than 45 degrees
yaw_vel_steep_only(s) ==
    IF s.detection_method = "hough" /\ Abs(s.line_angle) > 45
    THEN (IF s.line_angle > 0 THEN ROTATION_SPEED ELSE -ROTATION_SPEED)
    ELSE 0

\* the yaw velocity that also follows the angle of a contour's bounding box
yaw_vel_any_method(s) ==
    IF Abs(s.line_angle) > ROTATION_THRESHOLD
    THEN (IF s.line_angle > 0 THEN ROTATION_SPEED ELSE -ROTATION_SPEED)
    ELSE 0

yaw_vel(s) ==
    IF s.detection_method = "hough" /\ Abs(s.line_angle) > ROTATION_THRESHOLD
    THEN (IF s.line_angle > 0 THEN ROTATION_SPEED ELSE -ROTATION_SPEED)
    ELSE 0

\* calculate_movement that keeps the last command while no line is seen
calculate_movement_hold(s) ==
    IF ~s.line_detected
    THEN <<s.left_right_velocity, s.for_back_velocity, s.up_down_velocity, s.yaw_velocity>>
    ELSE <<left_right_vel(s.line_center_x - s.frame_center_x), forward_back_vel(s),
           up_down_vel(s.line_center_y - s.frame_center_y), yaw_vel(s)>>

\* calculate_movement that does not look at line_detected
calculate_movement_stale(s) ==
    <<left_right_vel(s.line_center_x - s.frame_center_x), forward_back_vel(s),
      up_down_vel(s.line_center_y - s.frame_center_y), yaw_vel(s)>>

calculate_movement(s) ==
    IF ~s.line_detected THEN Zero
    ELSE
    LET error_x == s.line_center_x - s.frame_center_x
        error_y == s.line_center_y - s.frame_center_y
    IN  <<left_right_vel(error_x), forward_back_vel(s), up_down_vel(error_y), yaw_vel(s)>>

SetVelocity(s, v) ==
    [s EXCEPT !.left_right_velocity = v[1], !.for_back_velocity = v[2],
              !.up_down_velocity = v[3], !.yaw_velocity = v[4]]

-----------------------------------------------------------------------------
(* Flight commands.  ok: the call on the drone returns (TRUE) or raises. *)

\* emergency_land that leaves autonomous_mode as it is
emergency_land_keeps_mode(s, ok) ==
    IF s.is_flying /\ s.connected
    THEN LET s1 == Call(s, "emergency", ok)
         IN  IF ok THEN [s1 EXCEPT !.is_flying = FALSE] ELSE s1
    ELSE s

emergency_land(s, ok) ==
    IF s.is_flying /\ s.connected
    THEN LET s1 == Call([s EXCEPT !.autonomous_mode = FALSE], "emergency", ok)
         IN  IF ok THEN [s1 EXCEPT !.is_flying = FALSE] ELSE s1
    ELSE s

\* takeoff without the battery check
takeoff_any_battery(s, t, ok) ==
    IF ~s.connected THEN s
    ELSE LET s1 == Call(s, "takeoff", ok)
         IN  IF ok THEN [s1 EXCEPT !.is_flying = TRUE, !.flight_start_time = t] ELSE s1

takeoff(s, t, ok) ==
    IF ~s.connected THEN s
    ELSE IF s.battery_level < EMERGENCY_BATTERY THEN s
    ELSE LET s1 == Call(s, "takeoff", ok)
         IN  IF ok THEN [s1 EXCEPT !.is_flying = TRUE, !.flight_start_time = t] ELSE s1

\* land that leaves autonomous_mode as it is
land_keeps_mode(s, ok) ==
    IF ~s.is_flying THEN s
    ELSE LET s1 == Call(s, "land", ok)
         IN  IF ok THEN [s1 EXCEPT !.is_flying = FALSE] ELSE s1

land(s, ok) ==
    IF ~s.is_flying THEN s
    ELSE LET s1 == Call([s EXCEPT !.autonomous_mode = FALSE], "land", ok)
         IN  IF ok THEN [s1 EXCEPT !.is_flying = FALSE] ELSE s1

\* send_movement_command that does not look at is_flying
send_movement_command_on_the_ground(s, ok) ==
    IF ~s.connected THEN s
    ELSE LET s1 == CallRc(s, ok)
         IN  IF ok THEN s1 ELSE [s1 EXCEPT !.connected = FALSE]

\* send_movement_command that keeps connected when the call raises
send_movement_command_stays_connected(s, ok) ==
    IF ~s.is_flying \/ ~s.connected THEN s
    ELSE CallRc(s, ok)

send_movement_command(s, ok) ==
    IF ~s.is_flying \/ ~s.connected THEN s
    ELSE LET s1 == CallRc(s, ok)
         IN  IF ok THEN s1 ELSE [s1 EXCEPT !.connected = FALSE]

\* reading: what tello.get_battery() returns, or ReadError when it raises
\* update_battery whose emergency threshold is inclusive
update_battery_inclusive(s, reading, ok) ==
    IF s.connected
    THEN IF reading = ReadError THEN Call(s, "get_battery", FALSE)
         ELSE LET s1 == Call([s EXCEPT !.battery_level = reading.percent], "get_battery", TRUE)
              IN  IF s1.battery_level <= EMERGENCY_BATTERY /\ s1.is_flying
                  THEN emergency_land(s1, ok)
                  ELSE s1
    ELSE s

\* update_battery that takes a read that raised for an empty battery
update_battery_read_zero(s, reading, ok) ==
    IF s.connected
    THEN LET s1 == IF reading = ReadError
                   THEN Call([s EXCEPT !.battery_level = 0], "get_battery", FALSE)
                   ELSE Call([s EXCEPT !.battery_level = reading.percent], "get_battery", TRUE)
         IN  IF s1.battery_level < EMERGENCY_BATTERY /\ s1.is_flying
             THEN emergency_land(s1, ok)
             ELSE s1
    ELSE s

update_battery(s, reading, ok) ==
    IF s.connected
    THEN IF reading = ReadError THEN Call(s, "get_battery", FALSE)
         ELSE LET s1 == Call([s EXCEPT !.battery_level = reading.percent], "get_battery", TRUE)
              IN  IF s1.battery_level < EMERGENCY_BATTERY /\ s1.is_flying
                  THEN emergency_land(s1, ok)
                  ELSE s1
    ELSE s

-----------------------------------------------------------------------------
(* The main loop of run() *)

\* get_frame that counts the frames it does not get
get_frame_counts_none(s, frame) ==
    IF ~s.connected THEN [self |-> s, frame |-> None]
    ELSE IF frame = None
    THEN [self |-> [s EXCEPT !.frames_processed = @ + 1], frame |-> None]
    ELSE [self |-> [s EXCEPT !.frame_center_x = CAMERA_WIDTH \div 2,
                             !.frame_center_y = CAMERA_HEIGHT \div 2,
                             !.frames_processed = @ + 1],
          frame |-> frame]

\* frame: what tello.get_frame_read().frame holds, None also when the read raises
get_frame(s, frame) ==
    IF ~s.connected THEN [self |-> s, frame |-> None]
    ELSE IF frame = None THEN [self |-> s, frame |-> None]
    ELSE [self |-> [s EXCEPT !.frame_center_x = CAMERA_WIDTH \div 2,
                             !.frame_center_y = CAMERA_HEIGHT \div 2,
                             !.frames_processed = @ + 1],
          frame |-> frame]

\* process_frame that gives up the line one frame early
process_frame_early(s, frame, ok) ==
    LET s1 == detect_line(s, frame)
        s2 == IF ~s1.line_detected
              THEN [s1 EXCEPT !.line_lost_count = @ + 1]
              ELSE [s1 EXCEPT !.line_lost_count = 0]
        s3 == IF s2.autonomous_mode /\ s2.is_flying
              THEN IF s2.line_detected
                   THEN SetVelocity(s2, calculate_movement(s2))
                   ELSE LET s2z == SetVelocity(s2, Zero)
                        IN  IF s2z.line_lost_count >= max_line_lost
                            THEN [s2z EXCEPT !.autonomous_mode = FALSE]
                            ELSE s2z
              ELSE s2
    IN  send_movement_command(s3, ok)

\* process_frame that counts lost frames only while the drone is flying
process_frame_counts_flying(s, frame, ok) ==
    LET s1 == detect_line(s, frame)
        s2 == IF ~s1.line_detected
              THEN [s1 EXCEPT !.line_lost_count = IF s1.is_flying THEN @ + 1 ELSE @]
              ELSE [s1 EXCEPT !.line_lost_count = 0]
        s3 == IF s2.autonomous_mode /\ s2.is_flying
              THEN IF s2.line_detected
                   THEN SetVelocity(s2, calculate_movement(s2))
                   ELSE LET s2z == SetVelocity(s2, Zero)
                        IN  IF s2z.line_lost_count > max_line_lost
                            THEN [s2z EXCEPT !.autonomous_mode = FALSE]
                            ELSE s2z
              ELSE s2
    IN  send_movement_command(s3, ok)

\* process_frame that keeps the last velocities when the line is lost
process_frame_keeps_velocity(s, frame, ok) ==
    LET s1 == detect_line(s, frame)
        s2 == IF ~s1.line_detected
              THEN [s1 EXCEPT !.line_lost_count = @ + 1]
              ELSE [s1 EXCEPT !.line_lost_count = 0]
        s3 == IF s2.autonomous_mode /\ s2.is_flying
              THEN IF s2.line_detected
                   THEN SetVelocity(s2, calculate_movement(s2))
                   ELSE IF s2.line_lost_count > max_line_lost
                        THEN [s2 EXCEPT !.autonomous_mode = FALSE]
                        ELSE s2
              ELSE s2
    IN  send_movement_command(s3, ok)

\* the loop body from detect_line to send_movement_command
process_frame(s, frame, ok) ==
    LET s1 == detect_line(s, frame)
        s2 == IF ~s1.line_detected
              THEN [s1 EXCEPT !.line_lost_count = @ + 1]
              ELSE [s1 EXCEPT !.line_lost_count = 0]
        s3 == IF s2.autonomous_mode /\ s2.is_flying
              THEN IF s2.line_detected
                   THEN SetVelocity(s2, calculate_movement(s2))
                   ELSE LET s2z == SetVelocity(s2, Zero)
                        IN  IF s2z.line_lost_count > max_line_lost
                            THEN [s2z EXCEPT !.autonomous_mode = FALSE]
                            ELSE s2z
              ELSE s2
    IN  send_movement_command(s3, ok)

\* AVAILABLE_COLORS.index(color_name), counted from 0
ColorIndex(color_name) ==
    (CHOOSE i \in DOMAIN AVAILABLE_COLORS : AVAILABLE_COLORS[i] = color_name) - 1

\* change_color that leaves color_index as it is
change_color_keeps_index(s, color_name) ==
    IF \E i \in DOMAIN AVAILABLE_COLORS : AVAILABLE_COLORS[i] = color_name
    THEN [s EXCEPT !.selected_color = color_name]
    ELSE s

change_color(s, color_name) ==
    IF \E i \in DOMAIN AVAILABLE_COLORS : AVAILABLE_COLORS[i] = color_name
    THEN [s EXCEPT !.selected_color = color_name,
                   !.color_index = ColorIndex(color_name)]
    ELSE s

cycle_color(s) ==
    LET color_index == (s.color_index + 1) % Len(AVAILABLE_COLORS)
    IN  [s EXCEPT !.color_index = color_index,
                  !.selected_color = AVAILABLE_COLORS[color_index + 1]]

\* switch_detection_method that starts the line tracking afresh
switch_detection_method_resets(s, method) ==
    IF method \in {"contour", "hough"}
    THEN [s EXCEPT !.detection_method = method,
                   !.line_detected = FALSE, !.line_lost_count = 0]
    ELSE s

switch_detection_method(s, method) ==
    IF method \in {"contour", "hough"}
    THEN [s EXCEPT !.detection_method = method]
    ELSE s

\* handle_key whose T key takes off whether or not the drone is flying
handle_key_takeoff_unguarded(s, k, t, ok) ==
    CASE k = "t" -> takeoff(s, t, ok)
      [] k = "l" -> IF s.is_flying THEN land(s, ok) ELSE s
      [] k = "a" -> IF s.is_flying /\ ~s.autonomous_mode
                    THEN [s EXCEPT !.autonomous_mode = TRUE]
                    ELSE s
      [] k = "s" -> IF s.autonomous_mode THEN [s EXCEPT !.autonomous_mode = FALSE] ELSE s
      [] k = "esc" -> emergency_land(s, ok)
      [] OTHER -> s

\* the keyboard handling; t: the clock
handle_key(s, k, t, ok) ==
    CASE k = "t" -> IF ~s.is_flying THEN takeoff(s, t, ok) ELSE s
      [] k = "l" -> IF s.is_flying THEN land(s, ok) ELSE s
      [] k = "a" -> IF s.is_flying /\ ~s.autonomous_mode
                    THEN [s EXCEPT !.autonomous_mode = TRUE]
                    ELSE s
      [] k = "s" -> IF s.autonomous_mode THEN [s EXCEPT !.autonomous_mode = FALSE] ELSE s
      [] k = "c" -> cycle_color(s)
      [] k = "h" -> switch_detection_method(s, "hough")
      [] k = "o" -> switch_detection_method(s, "contour")
      [] k = "1" -> change_color(s, "white")
      [] k = "2" -> change_color(s, "red")
      [] k = "3" -> change_color(s, "green")
      [] k = "4" -> change_color(s, "yellow")
      [] k = "5" -> change_color(s, "blue")
      [] k = "esc" -> emergency_land(s, ok)
      [] OTHER -> s

\* the loop left by whatever raised in the key handling
after_key_raise(s, k) ==
    IF k = "esc" \/ (\E i \in DOMAIN s.tello : ~s.tello[i].ok) THEN "cleanup" ELSE "battery"

\* where the loop goes after the key handling: ESC breaks
after_key(s, k) ==
    IF k = "esc" THEN "cleanup" ELSE "battery"

\* the battery check of every second instead of every third
poll_battery_every_second(s, reading, ok) ==
    IF s.frames_processed % FPS = 0 THEN update_battery(s, reading, ok) ELSE s

poll_battery(s, reading, ok) ==
    IF s.frames_processed % (FPS * 3) = 0 THEN update_battery(s, reading, ok) ELSE s

\* the flight time check: the controller it leaves and whether the loop breaks
check_flight_time(s, t, ok) ==
    IF s.is_flying /\ t - s.flight_start_time > MAX_FLIGHT_TIME
    THEN [self |-> land(s, ok), break |-> TRUE]
    ELSE [self |-> s, break |-> FALSE]

\* cleanup that lands whenever the controller is connected
cleanup_lands_when_connected(s, ok) ==
    IF s.connected THEN Call(s, "land", ok) ELSE s

cleanup(s, ok) ==
    IF s.is_flying /\ s.connected THEN Call(s, "land", ok) ELSE s

-----------------------------------------------------------------------------
(* The observer *)

Completed(s, cmd) == \E i \in Issued(s, cmd) : s.tello[i].ok

Raised(s, cmd) == \E i \in Issued(s, cmd) : ~s.tello[i].ok

\* key: the key the last step handled ("none" when it handled none);
\* streak: processed frames without a line since the last one with a line;
\* emergency: an emergency command completed and no land command after it;
\* auto_run: every frame of the streak was processed in autonomous flight;
\* degraded: autonomous mode was switched off for a lost line and has not
\* been switched on since;
\* sent: the iteration under way has sent a velocity command
Observe(h, s, k) ==
    [h EXCEPT !.key = k,
              !.emergency = IF Completed(s, "emergency") THEN TRUE
                            ELSE IF Completed(s, "land") THEN FALSE
                            ELSE @,
              !.degraded = IF s.autonomous_mode THEN FALSE ELSE @]

-----------------------------------------------------------------------------
(* The state machine *)

Fresh == [self EXCEPT !.tello = <<>>]

\* run() has connected (connect_to_drone refuses a battery below
\* EMERGENCY_BATTERY) and started the video stream
Init ==
    /\ pc = "frame"
    /\ now = 0
    /\ \E b \in BatteryLevels :
        /\ b >= EMERGENCY_BATTERY
        /\ self = [connected |-> TRUE, is_flying |-> FALSE, autonomous_mode |-> FALSE,
                   detection_method |-> "contour",
                   selected_color |-> "white", color_index |-> 0,
                   battery_level |-> b, flight_start_time |-> 0,
                   line_detected |-> FALSE, line_lost_count |-> 0,
                   line_center_x |-> 0, line_center_y |-> 0, line_angle |-> 0,
                   left_right_velocity |-> 0, for_back_velocity |-> 0,
                   up_down_velocity |-> 0, yaw_velocity |-> 0,
                   frame_center_x |-> 0, frame_center_y |-> 0,
                   frames_processed |-> 0, tello |-> <<>>]
    /\ hist = [key |-> "none", streak |-> 0, auto_run |-> TRUE,
               emergency |-> FALSE, degraded |-> FALSE, sent |-> FALSE]

FrameStep(frames, maxFrames, maxLost) ==
    /\ pc = "frame"
    /\ \E frame \in frames \cup {None}, d \in Ticks, ok \in BOOLEAN :
        LET g == get_frame(Fresh, frame)
        IN  /\ now + d <= MaxClock
            /\ now' = now + d
            /\ IF g.frame = None
               THEN /\ self' = g.self
                    /\ pc' = "frame"
                    /\ hist' = Observe(hist, g.self, "none")
               ELSE LET s == process_frame(g.self, g.frame, ok)
                    IN  /\ g.self.frames_processed <= maxFrames
                        /\ s.line_lost_count <= maxLost
                        /\ self' = s
                        /\ pc' = "keys"
                        /\ hist' = [Observe(hist, s, "none") EXCEPT
                                      !.streak = IF s.line_detected THEN 0 ELSE @ + 1,
                                      !.auto_run =
                                          \/ s.line_detected
                                          \/ @ /\ self.is_flying /\ self.autonomous_mode,
                                      !.degraded = IF self.autonomous_mode /\ ~s.autonomous_mode
                                                   THEN TRUE ELSE @,
                                      !.sent = Issued(s, "send_rc_control") # {}]

KeyStep(keys) ==
    /\ pc = "keys"
    /\ \E k \in keys, ok \in BOOLEAN :
        LET s == handle_key(Fresh, k, now, ok)
        IN  /\ self' = s
            /\ pc' = after_key(s, k)
            /\ hist' = Observe(hist, s, k)
    /\ now' = now

BatteryStep(readings) ==
    /\ pc = "battery"
    /\ \E reading \in readings, ok \in BOOLEAN :
        LET s == poll_battery(Fresh, reading, ok)
        IN  /\ self' = s
            /\ hist' = Observe(hist, s, "none")
    /\ pc' = "flight_time"
    /\ now' = now

FlightTimeStep ==
    /\ pc = "flight_time"
    /\ \E ok \in BOOLEAN :
        LET r == check_flight_time(Fresh, now, ok)
        IN  /\ self' = r.self
            /\ pc' = IF r.break THEN "cleanup" ELSE "frame"
            /\ hist' = [Observe(hist, r.self, "none") EXCEPT !.sent = FALSE]
    /\ now' = now

CleanupStep ==
    /\ pc = "cleanup"
    /\ \E ok \in BOOLEAN :
        LET s == cleanup(Fresh, ok)
        IN  /\ self' = s
            /\ hist' = Observe(hist, s, "none")
    /\ pc' = "done"
    /\ now' = now

Next ==
    \/ FrameStep(Frames, MaxFrames, MaxLineLostCount)
    \/ KeyStep(FlightKeys)
    \/ BatteryStep(BatteryReadings)
    \/ FlightTimeStep
    \/ CleanupStep

Spec == Init /\ [][Next]_vars

\* Long runs without a line, on a battery that stays charged
NextLineLost ==
    \/ FrameStep(Frames, LineLostFrames, LineLostCount)
    \/ KeyStep(FlightKeys)
    \/ BatteryStep({[percent |-> LOW_BATTERY_THRESHOLD]})
    \/ FlightTimeStep
    \/ CleanupStep

SpecLineLost == Init /\ [][NextLineLost]_vars

\* A few frames of a loop that keeps running: the while loop always takes its
\* next step, and the camera of a connected drone gives a frame again and again
ProcessFrame ==
    FrameStep(Frames, FairFrames, MaxLineLostCount) /\ pc' = "keys"

NextFair ==
    \/ FrameStep(Frames, FairFrames, MaxLineLostCount)
    \/ KeyStep(FlightKeys)
    \/ BatteryStep({[percent |-> LOW_BATTERY_THRESHOLD]})
    \/ FlightTimeStep
    \/ CleanupStep

SpecFair ==
    Init /\ [][NextFair]_vars /\ WF_vars(NextFair) /\ SF_vars(ProcessFrame)

\* A few iterations of a loop that Ctrl-C or an unexpected error can leave
\* between any two of its steps: run() catches both and goes on to cleanup
InterruptFrames == 3

InterruptStep ==
    /\ pc \in {"frame", "keys", "battery", "flight_time"}
    /\ self' = Fresh
    /\ pc' = "cleanup"
    /\ hist' = Observe(hist, Fresh, "none")
    /\ now' = now

NextInterrupt ==
    \/ FrameStep(Frames, InterruptFrames, MaxLineLostCount)
    \/ KeyStep(FlightKeys)
    \/ BatteryStep(BatteryReadings)
    \/ FlightTimeStep
    \/ CleanupStep
    \/ InterruptStep

SpecInterrupt == Init /\ [][NextInterrupt]_vars

\* The three line followers side by side, on the red line and with the
\* contour method: every step gives the same frame, key, battery reading,
\* clock and outcome of the drone's calls to each of them.  self and pc hold
\* one controller and one position of the loop for each.  takeoff, land,
\* emergency_land, send_movement_command, update_battery, get_frame, cleanup
\* and the handling of the keys t, l, a, s and ESC are the same statements in
\* the three files.
Variants == {"WiseTello", "WiseTelloMultiColor", "WiseTelloHough"}

LockstepFrames == 3

\* a contour too small for a line
SmallFrame ==
    [contours |-> <<[m00 |-> MIN_LINE_AREA - 100, m10 |-> 0, m01 |-> 0, w |-> 10, h |-> 10]>>,
     lines |-> <<>>]

ContourFrames == {EmptyFrame, SmallFrame, LineFrame}

\* WiseTello.detect_red_line: the loop over the contours reads
\* VisionConfig.MIN_LINE_AREA, which VisionConfig of wise_tello.py does not
\* have (it is an attribute of FlightConfig), so the first contour raises
\* AttributeError; without contours there is no line
WiseTello_detect_red_line(s, frame) ==
    IF frame.contours # <<>>
    THEN [self |-> s, raised |-> TRUE]
    ELSE [self |-> [s EXCEPT !.line_detected = FALSE], raised |-> FALSE]

\* WiseTello.calculate_movement: with a line it reads
\* VisionConfig.CENTER_TOLERANCE, which is not there either
WiseTello_calculate_movement(s) ==
    IF ~s.line_detected
    THEN [velocity |-> Zero, raised |-> FALSE]
    ELSE [velocity |-> Zero, raised |-> TRUE]

\* the frame part of WiseTello.run; raised: an exception left the loop
WiseTello_process_frame(s, frame, ok) ==
    LET d == WiseTello_detect_red_line(s, frame)
        s1 == d.self
        s2 == IF ~s1.line_detected
              THEN [s1 EXCEPT !.line_lost_count = @ + 1]
              ELSE [s1 EXCEPT !.line_lost_count = 0]
        m == WiseTello_calculate_movement(s2)
    IN  IF d.raised THEN [self |-> s, raised |-> TRUE]
        ELSE IF s2.autonomous_mode /\ s2.is_flying
        THEN IF s2.line_detected
             THEN IF m.raised THEN [self |-> s2, raised |-> TRUE]
                  ELSE [self |-> send_movement_command(SetVelocity(s2, m.velocity), ok),
                        raised |-> FALSE]
             ELSE LET s2z == SetVelocity(s2, Zero)
                      s3 == IF s2z.line_lost_count > max_line_lost
                            THEN [s2z EXCEPT !.autonomous_mode = FALSE]
                            ELSE s2z
                  IN  [self |-> send_movement_command(s3, ok), raised |-> FALSE]
        ELSE [self |-> send_movement_command(s2, ok), raised |-> FALSE]

\* WiseTelloMultiColor.detect_line: the contours, without an angle
WiseTelloMultiColor_detect_line(s, frame) ==
    LET valid_contours == SelectSeq(frame.contours, IsValidContour)
    IN  IF valid_contours = <<>> THEN [s EXCEPT !.line_detected = FALSE]
        ELSE LET main_contour == valid_contours[FirstMax(
                 [i \in 1..Len(valid_contours) |-> contourArea(valid_contours[i])], 1, 1)]
             IN  IF main_contour.m00 # 0
                 THEN [s EXCEPT !.line_center_x = main_contour.m10 \div main_contour.m00,
                                !.line_center_y = main_contour.m01 \div main_contour.m00,
                                !.line_detected = TRUE]
                 ELSE [s EXCEPT !.line_detected = FALSE]

\* WiseTelloMultiColor.calculate_movement: always forward, never yaw
WiseTelloMultiColor_calculate_movement(s) ==
    IF ~s.line_detected THEN Zero
    ELSE
    LET error_x == s.line_center_x - s.frame_center_x
        error_y == s.line_center_y - s.frame_center_y
    IN  <<left_right_vel(error_x), FORWARD_SPEED, up_down_vel(error_y), 0>>

\* the frame part of WiseTelloMultiColor.run
WiseTelloMultiColor_process_frame(s, frame, ok) ==
    LET s1 == WiseTelloMultiColor_detect_line(s, frame)
        s2 == IF ~s1.line_detected
              THEN [s1 EXCEPT !.line_lost_count = @ + 1]
              ELSE [s1 EXCEPT !.line_lost_count = 0]
        s3 == IF s2.autonomous_mode /\ s2.is_flying
              THEN IF s2.line_detected
                   THEN SetVelocity(s2, WiseTelloMultiColor_calculate_movement(s2))
                   ELSE LET s2z == SetVelocity(s2, Zero)
                        IN  IF s2z.line_lost_count > max_line_lost
                            THEN [s2z EXCEPT !.autonomous_mode = FALSE]
                            ELSE s2z
              ELSE s2
    IN  send_movement_command(s3, ok)

\* one variant takes a frame: where its loop goes and what it holds then
VariantFrame(v, s, frame, ok) ==
    LET g == get_frame(s, frame)
    IN  IF g.frame = None THEN [self |-> g.self, pc |-> "frame"]
        ELSE IF v = "WiseTello"
        THEN LET r == WiseTello_process_frame(g.self, g.frame, ok)
             IN  [self |-> r.self, pc |-> IF r.raised THEN "cleanup" ELSE "keys"]
        ELSE IF v = "WiseTelloMultiColor"
        THEN [self |-> WiseTelloMultiColor_process_frame(g.self, g.frame, ok), pc |-> "keys"]
        ELSE [self |-> process_frame(g.self, g.frame, ok), pc |-> "keys"]

\* the controller of a variant at the start of a step
FreshOf(v) == [self[v] EXCEPT !.tello = <<>>]

\* the three controllers after construction and connection, red selected
InitVariants ==
    /\ pc = [v \in Variants |-> "frame"]
    /\ now = 0
    /\ self = [v \in Variants |->
                [connected |-> TRUE, is_flying |-> FALSE, autonomous_mode |-> FALSE,
                 detection_method |-> "contour",
                 selected_color |-> "red", color_index |-> 1,
                 battery_level |-> LOW_BATTERY_THRESHOLD, flight_start_time |-> 0,
                 line_detected |-> FALSE, line_lost_count |-> 0,
                 line_center_x |-> 0, line_center_y |-> 0, line_angle |-> 0,
                 left_right_velocity |-> 0, for_back_velocity |-> 0,
                 up_down_velocity |-> 0, yaw_velocity |-> 0,
                 frame_center_x |-> 0, frame_center_y |-> 0,
                 frames_processed |-> 0, tello |-> <<>>]]
    /\ hist = [key |-> "none"]

\* every variant that is at the top of its loop takes the frame
VariantsFrameStep ==
    /\ \E v \in Variants : pc[v] = "frame"
    /\ \E frame \in ContourFrames \cup {None}, d \in Ticks, ok \in BOOLEAN :
        /\ now + d <= MaxClock
        /\ now' = now + d
        /\ \A v \in Variants : self[v].frames_processed < LockstepFrames
        /\ self' = [v \in Variants |->
                      IF pc[v] = "frame" THEN VariantFrame(v, FreshOf(v), frame, ok).self
                      ELSE FreshOf(v)]
        /\ pc' = [v \in Variants |->
                      IF pc[v] = "frame" THEN VariantFrame(v, FreshOf(v), frame, ok).pc
                      ELSE pc[v]]
    /\ hist' = [key |-> "none"]

VariantsKeyStep ==
    /\ \E v \in Variants : pc[v] = "keys"
    /\ \E k \in FlightKeys, ok \in BOOLEAN :
        /\ self' = [v \in Variants |->
                      IF pc[v] = "keys" THEN handle_key(FreshOf(v), k, now, ok)
                      ELSE FreshOf(v)]
        /\ pc' = [v \in Variants |->
                      IF pc[v] = "keys" THEN after_key(self'[v], k) ELSE pc[v]]
        /\ hist' = [key |-> k]
    /\ now' = now

VariantsBatteryStep ==
    /\ \E v \in Variants : pc[v] = "battery"
    /\ \E reading \in BatteryReadings, ok \in BOOLEAN :
        self' = [v \in Variants |->
                    IF pc[v] = "battery" THEN poll_battery(FreshOf(v), reading, ok)
                    ELSE FreshOf(v)]
    /\ pc' = [v \in Variants |-> IF pc[v] = "battery" THEN "flight_time" ELSE pc[v]]
    /\ hist' = [key |-> "none"]
    /\ now' = now

VariantsFlightTimeStep ==
    /\ \E v \in Variants : pc[v] = "flight_time"
    /\ \E ok \in BOOLEAN :
        /\ self' = [v \in Variants |->
                      IF pc[v] = "flight_time" THEN check_flight_time(FreshOf(v), now, ok).self
                      ELSE FreshOf(v)]
        /\ pc' = [v \in Variants |->
                      IF pc[v] = "flight_time"
                      THEN (IF check_flight_time(FreshOf(v), now, ok).break
                            THEN "cleanup" ELSE "frame")
                      ELSE pc[v]]
    /\ hist' = [key |-> "none"]
    /\ now' = now

VariantsCleanupStep ==
    /\ \E v \in Variants : pc[v] = "cleanup"
    /\ \E ok \in BOOLEAN :
        self' = [v \in Variants |->
                    IF pc[v] = "cleanup" THEN cleanup(FreshOf(v), ok) ELSE FreshOf(v)]
    /\ pc' = [v \in Variants |-> IF pc[v] = "cleanup" THEN "done" ELSE pc[v]]
    /\ hist' = [key |-> "none"]
    /\ now' = now

NextVariants ==
    \/ VariantsFrameStep
    \/ VariantsKeyStep
    \/ VariantsBatteryStep
    \/ VariantsFlightTimeStep
    \/ VariantsCleanupStep

SpecVariants == InitVariants /\ [][NextVariants]_vars

\* The colour and method keys, and change_color and switch_detection_method
\* called between two iterations with names that exist and names that do not
SwitchKeys == {"c", "h", "o", "1", "2", "3", "4", "5"}

ColorNames == {"white", "red", "green", "yellow", "blue", "purple", ""}
MethodNames == {"contour", "hough", "canny", ""}
KnownColors == {AVAILABLE_COLORS[i] : i \in DOMAIN AVAILABLE_COLORS}

RequestStep ==
    /\ pc = "frame"
    /\ \/ \E color_name \in ColorNames \cap KnownColors :
            self' = change_color(Fresh, color_name)
       \/ self' = cycle_color(Fresh)
       \/ \E method \in MethodNames \cap {"contour", "hough"} :
            self' = switch_detection_method(Fresh, method)
    /\ hist' = Observe(hist, self', "request")
    /\ UNCHANGED <<pc, now>>

BadRequestStep ==
    /\ pc = "frame"
    /\ \/ \E color_name \in ColorNames \ KnownColors :
            self' = change_color(Fresh, color_name)
       \/ \E method \in MethodNames \ {"contour", "hough"} :
            self' = switch_detection_method(Fresh, method)
    /\ hist' = Observe(hist, self', "bad_request")
    /\ UNCHANGED <<pc, now>>

NextSwitch ==
    \/ FrameStep(Frames, SwitchFrames, MaxLineLostCount)
    \/ KeyStep(FlightKeys \cup SwitchKeys)
    \/ BatteryStep({[percent |-> LOW_BATTERY_THRESHOLD]})
    \/ FlightTimeStep
    \/ CleanupStep
    \/ RequestStep
    \/ BadRequestStep

SpecSwitch == Init /\ [][NextSwitch]_vars

\* The thresholding of one pixel on its own. self holds the locals of the
\* detection: the colour selected, the pixel of hsv and its pixel of the mask
\* (None before the thresholding).
Hues == {0, 10, 11, 20, 40, 41, 80, 90, 100, 130, 169, 170, 179}
Saturations == {0, 30, 119, 120, 255}
Values == {69, 70, 200, 255}

InitMask ==
    /\ pc = "threshold"
    /\ now = 0
    /\ \E h \in Hues, sat \in Saturations, v \in Values, c \in KnownColors :
        self = [selected_color |-> c, hsv |-> <<h, sat, v>>, mask |-> None]
    /\ hist = [key |-> "none", streak |-> 0, auto_run |-> TRUE,
               emergency |-> FALSE, degraded |-> FALSE, sent |-> FALSE]

ThresholdStep ==
    /\ pc = "threshold"
    /\ self' = [self EXCEPT !.mask = [value |-> color_mask(self.hsv, self.selected_color)]]
    /\ pc' = "thresholded"
    /\ UNCHANGED <<now, hist>>

NextMask == ThresholdStep

SpecMask == InitMask /\ [][NextMask]_vars

\* The detection and the controller on their own: one frame is detected by
\* a controller that holds what earlier detections left, and
\* calculate_movement is applied to the result.
ControlErrors ==
    {-(CENTER_TOLERANCE + 1), -CENTER_TOLERANCE, 0, CENTER_TOLERANCE,
     CENTER_TOLERANCE + 1, CENTER_TOLERANCE + 30}

\* the halves (dx, dy) of the segments: the eight directions 45 degrees apart
ControlDirections ==
    {<<20, 0>>, <<20, 20>>, <<0, 20>>, <<-20, 20>>,
     <<-20, 0>>, <<-20, -20>>, <<0, -20>>, <<20, -20>>}

\* one contour and one segment, both centred at (cx, cy)
ControlFrame(cx, cy, dir) ==
    [contours |-> <<[m00 |-> 1000, m10 |-> 1000 * cx, m01 |-> 1000 * cy,
                     w |-> 40, h |-> 40]>>,
     lines |-> <<<<cx - dir[1], cy - dir[2], cx + dir[1], cy + dir[2]>>>>]

ControlFrames ==
    {ControlFrame(CAMERA_WIDTH \div 2 + ex, CAMERA_HEIGHT \div 2 + ey, dir) :
        ex \in ControlErrors, ey \in ControlErrors, dir \in ControlDirections}
    \cup {EmptyFrame}

\* what an earlier detection left: nothing yet, or a line right of and below
\* the centre
StaleLines ==
    {[line_detected |-> FALSE, line_center_x |-> 0, line_center_y |-> 0, line_angle |-> 0],
     [line_detected |-> TRUE, line_center_x |-> 560, line_center_y |-> 440, line_angle |-> 90]}

\* the command an earlier iteration left: none, or right, forward, down, yaw
StaleVelocities ==
    {Zero, <<SIDE_SPEED, FORWARD_SPEED, -VERTICAL_SPEED, ROTATION_SPEED>>}

InitControl ==
    /\ pc = "detect"
    /\ now = 0
    /\ \E stale \in StaleLines, method \in {"contour", "hough"}, v \in StaleVelocities :
        self = [connected |-> TRUE, is_flying |-> TRUE, autonomous_mode |-> TRUE,
                detection_method |-> method,
                selected_color |-> "white", color_index |-> 0,
                battery_level |-> LOW_BATTERY_THRESHOLD, flight_start_time |-> 0,
                line_detected |-> stale.line_detected, line_lost_count |-> 0,
                line_center_x |-> stale.line_center_x,
                line_center_y |-> stale.line_center_y,
                line_angle |-> stale.line_angle,
                left_right_velocity |-> v[1], for_back_velocity |-> v[2],
                up_down_velocity |-> v[3], yaw_velocity |-> v[4],
                frame_center_x |-> CAMERA_WIDTH \div 2,
                frame_center_y |-> CAMERA_HEIGHT \div 2,
                frames_processed |-> 1, tello |-> <<>>]
    /\ hist = [key |-> "none", streak |-> 0, auto_run |-> TRUE,
               emergency |-> FALSE, degraded |-> FALSE,
               sent |-> Velocity(self) # Zero]

DetectStep ==
    /\ pc = "detect"
    /\ \E frame \in ControlFrames : self' = detect_line(self, frame)
    /\ pc' = "control"
    /\ UNCHANGED <<now, hist>>

ControlStep ==
    /\ pc = "control"
    /\ self' = SetVelocity(self, calculate_movement(self))
    /\ pc' = "controlled"
    /\ UNCHANGED <<now, hist>>

\* the result is sent to the drone
SendStep ==
    /\ pc = "controlled"
    /\ \E ok \in BOOLEAN : self' = send_movement_command(self, ok)
    /\ pc' = "sent"
    /\ UNCHANGED <<now, hist>>

\* one whole iteration of the main loop on the frame, in autonomous flight
CycleStep ==
    /\ pc = "detect"
    /\ \E frame \in ControlFrames, ok \in BOOLEAN :
        self' = process_frame(self, frame, ok)
    /\ pc' = "cycled"
    /\ UNCHANGED <<now, hist>>

NextControl ==
    \/ DetectStep
    \/ ControlStep
    \/ SendStep
    \/ CycleStep

SpecControl == InitControl /\ [][NextControl]_vars

\* The detection on its own, on frames with several contours and several
\* segments. hist holds the frame that is detected.
MaxContours == 3
MaxSegments == 3

\* areas around MIN_LINE_AREA and one well above it
ContourAreas == {MIN_LINE_AREA - 1, MIN_LINE_AREA, MIN_LINE_AREA + 1, 2 * MIN_LINE_AREA}

\* the i-th contour findContours returns: its centre tells which one it is
ContourAt(i, area) ==
    [m00 |-> area, m10 |-> area * (300 + 100 * i), m01 |-> area * 360,
     w |-> 40, h |-> 40]

ContourLists ==
    UNION {{[i \in 1..n |-> ContourAt(i, areas[i])] : areas \in [1..n -> ContourAreas]}
           : n \in 0..MaxContours}

\* segments of squared lengths 10000, 14400, 7200, 10201 and 10000 again
Segments ==
    {<<100, 100, 200, 100>>, <<300, 300, 300, 420>>, <<500, 500, 440, 440>>,
     <<100, 200, 100, 99>>, <<600, 100, 600, 200>>}

SegmentLists == UNION {[1..n -> Segments] : n \in 0..MaxSegments}

DetectFrames ==
    {[contours |-> cs, lines |-> <<>>] : cs \in ContourLists}
    \cup {[contours |-> <<>>, lines |-> ls] : ls \in SegmentLists}

InitDetect ==
    /\ pc = "detect_frame"
    /\ now = 0
    /\ \E stale \in StaleLines, method \in {"contour", "hough"} :
        self = [connected |-> TRUE, is_flying |-> TRUE, autonomous_mode |-> TRUE,
                detection_method |-> method,
                selected_color |-> "white", color_index |-> 0,
                battery_level |-> LOW_BATTERY_THRESHOLD, flight_start_time |-> 0,
                line_detected |-> stale.line_detected, line_lost_count |-> 0,
                line_center_x |-> stale.line_center_x,
                line_center_y |-> stale.line_center_y,
                line_angle |-> stale.line_angle,
                left_right_velocity |-> 0, for_back_velocity |-> 0,
                up_down_velocity |-> 0, yaw_velocity |-> 0,
                frame_center_x |-> CAMERA_WIDTH \div 2,
                frame_center_y |-> CAMERA_HEIGHT \div 2,
                frames_processed |-> 1, tello |-> <<>>]
    /\ \E frame \in DetectFrames : hist = [frame |-> frame]

DetectFrameStep ==
    /\ pc = "detect_frame"
    /\ self' = detect_line(self, hist.frame)
    /\ pc' = "detected"
    /\ UNCHANGED <<now, hist>>

NextDetect == DetectFrameStep

SpecDetect == InitDetect /\ [][NextDetect]_vars

-----------------------------------------------------------------------------
(* Tello-project/tello_controller.py: the keyboard controller *)

\* In SpecKeyboard self is the TelloController object, with the log of the
\* drone calls of the last step and the local battery_update_counter of
\* run(); hist holds the last event handled.
SPEED == 60

KeyboardKeys == {"t", "l", "w", "s", "left", "esc"}

handle_key_down(s, key, ok) ==
    IF key = "t" /\ ~s.is_flying /\ s.connected
    THEN IF s.battery_level < 10 THEN s
         ELSE LET s1 == Call(s, "takeoff", ok)
              IN  IF ok THEN [s1 EXCEPT !.is_flying = TRUE] ELSE s1
    ELSE IF key = "l" /\ s.is_flying
    THEN LET s1 == Call(s, "land", ok)
         IN  IF ok THEN [s1 EXCEPT !.is_flying = FALSE] ELSE s1
    ELSE IF s.is_flying /\ s.connected
    THEN CASE key = "w" -> [s EXCEPT !.for_back_velocity = SPEED]
           [] key = "s" -> [s EXCEPT !.for_back_velocity = -SPEED]
           [] key = "left" -> [s EXCEPT !.yaw_velocity = -SPEED]
           [] OTHER -> s
    ELSE IF key = "esc"
    THEN LET s1 == IF s.is_flying /\ s.connected
                   THEN (LET s2 == Call(s, "emergency", ok)
                         IN  IF ok THEN [s2 EXCEPT !.is_flying = FALSE] ELSE s2)
                   ELSE s
         IN  [s1 EXCEPT !.send_rc = FALSE]
    ELSE s

handle_key_up(s, key) ==
    CASE key \in {"w", "s"} -> [s EXCEPT !.for_back_velocity = 0]
      [] key = "left" -> [s EXCEPT !.yaw_velocity = 0]
      [] OTHER -> s

\* the velocity command of an iteration of run()
send_rc_control(s, ok) ==
    IF s.is_flying /\ s.connected
    THEN LET s1 == CallRc(s, ok)
         IN  IF ok THEN s1 ELSE [s1 EXCEPT !.connected = FALSE]
    ELSE s

\* the battery read of every 90th iteration of run()
count_and_update_battery(s, reading) ==
    LET s1 == [s EXCEPT !.battery_update_counter = @ + 1]
    IN  IF s1.battery_update_counter >= FPS * 3
        THEN [(IF s1.connected
               THEN (IF reading = ReadError THEN Call(s1, "get_battery", FALSE)
                     ELSE Call([s1 EXCEPT !.battery_level = reading.percent],
                               "get_battery", TRUE))
               ELSE s1)
              EXCEPT !.battery_update_counter = 0]
        ELSE s1

TelloController_cleanup(s, ok) ==
    IF s.is_flying /\ s.connected THEN Call(s, "land", ok) ELSE s

\* connect_to_drone has returned: connected with the battery it read, or not
\* connected and the user went on
InitKeyboard ==
    /\ pc = "kb_events"
    /\ now = 0
    /\ \E connected \in BOOLEAN, b \in {EMERGENCY_BATTERY - 1, LOW_BATTERY_THRESHOLD} :
        /\ ~connected => b = LOW_BATTERY_THRESHOLD
        /\ self = [is_flying |-> FALSE, send_rc |-> TRUE,
                   battery_level |-> IF connected THEN b ELSE 0,
                   connected |-> connected,
                   for_back_velocity |-> 0, left_right_velocity |-> 0,
                   up_down_velocity |-> 0, yaw_velocity |-> 0,
                   battery_update_counter |-> 0, tello |-> <<>>]
    /\ hist = [event |-> "none", key |-> "none"]

KeyDownEvent ==
    /\ pc = "kb_events"
    /\ \E key \in KeyboardKeys, ok \in BOOLEAN :
        /\ self' = handle_key_down(Fresh, key, ok)
        /\ hist' = [event |-> "down", key |-> key]
    /\ UNCHANGED <<pc, now>>

KeyUpEvent ==
    /\ pc = "kb_events"
    /\ \E key \in KeyboardKeys :
        /\ self' = handle_key_up(Fresh, key)
        /\ hist' = [event |-> "up", key |-> key]
    /\ UNCHANGED <<pc, now>>

QuitEvent ==
    /\ pc = "kb_events"
    /\ self' = [Fresh EXCEPT !.send_rc = FALSE]
    /\ hist' = [event |-> "quit", key |-> "none"]
    /\ UNCHANGED <<pc, now>>

\* the events are handled: the rest of the iteration and the test of the loop
IterationStep ==
    /\ pc = "kb_events"
    /\ \E ok \in BOOLEAN, reading \in {[percent |-> LOW_BATTERY_THRESHOLD], ReadError} :
        self' = count_and_update_battery(send_rc_control(Fresh, ok), reading)
    /\ pc' = IF self.send_rc THEN "kb_events" ELSE "kb_cleanup"
    /\ hist' = [event |-> "none", key |-> "none"]
    /\ now' = now

KeyboardCleanupStep ==
    /\ pc = "kb_cleanup"
    /\ \E ok \in BOOLEAN : self' = TelloController_cleanup(Fresh, ok)
    /\ pc' = "kb_done"
    /\ UNCHANGED <<now, hist>>

NextKeyboard ==
    \/ KeyDownEvent
    \/ KeyUpEvent
    \/ QuitEvent
    \/ IterationStep
    \/ KeyboardCleanupStep

SpecKeyboard == InitKeyboard /\ [][NextKeyboard]_vars

-----------------------------------------------------------------------------
(* Battery and emergency *)

\* C1: a battery poll that reads less than EMERGENCY_BATTERY while the drone
\* is flying, and whose emergency call returns, leaves the drone not flying,
\* has issued the emergency command once and leaves the four velocities at 0.
C1_BatteryCriticalStops ==
    [][(/\ pc = "battery"
        /\ self.is_flying
        /\ Completed(self', "get_battery")
        /\ self'.battery_level < EMERGENCY_BATTERY
        /\ ~Raised(self', "emergency"))
       => (/\ ~self'.is_flying
           /\ Cardinality(Issued(self', "emergency")) = 1
           /\ Velocity(self') = Zero)]_vars

\* C2: once an emergency command has completed, the drone is not flying
\* again before a land command has completed.
C2_EmergencyIsTerminal == ~(hist.emergency /\ self.is_flying)

\* C3: after the ESC key is handled the drone is not flying, the four
\* velocities are 0, and if the drone was flying the emergency command was
\* issued exactly once.
C3_EmergencyStopFromAnyState ==
    [][(pc = "keys" /\ hist'.key = "esc")
       => (/\ ~self'.is_flying
           /\ Velocity(self') = Zero
           /\ (self.is_flying => Cardinality(Issued(self', "emergency")) = 1))]_vars

-----------------------------------------------------------------------------
(* Takeoff, landing, autonomous mode *)

\* C4: the T key on the ground with battery_level below EMERGENCY_BATTERY
\* changes nothing and calls nothing on the drone; with battery_level at or
\* above it and a takeoff call that returns, the drone is flying, not
\* autonomous, and the flight time starts at 0.
C4_TakeoffBatteryGate ==
    [][(pc = "keys" /\ hist'.key = "t" /\ ~self.is_flying)
       => (/\ self.battery_level < EMERGENCY_BATTERY => self' = Fresh
           /\ (self.battery_level >= EMERGENCY_BATTERY /\ Completed(self', "takeoff"))
                => (/\ self'.is_flying
                    /\ ~self'.autonomous_mode
                    /\ now' - self'.flight_start_time = 0))]_vars

\* the T key was refused on the ground for the battery, at a time when a
\* takeoff would have moved flight_start_time
C4_Refused ==
    /\ pc = "battery" /\ hist.key = "t"
    /\ ~self.is_flying /\ self.connected
    /\ self.battery_level < EMERGENCY_BATTERY
    /\ self.tello = <<>>
    /\ self.flight_start_time # now

\* C5: the T key while the drone is flying changes nothing: no takeoff call,
\* flight_start_time and autonomous_mode as they were.
C5_TakeoffWhileFlying ==
    [][(pc = "keys" /\ hist'.key = "t" /\ self.is_flying) => self' = Fresh]_vars

\* the T key was handled in autonomous flight, at a time when a takeoff
\* would have moved flight_start_time
C5_Ignored ==
    /\ pc = "battery" /\ hist.key = "t"
    /\ self.is_flying /\ self.autonomous_mode /\ self.connected
    /\ self.tello = <<>>
    /\ self.flight_start_time # now

\* C6: the L key while the drone is not flying changes nothing and calls
\* nothing on the drone; land() whose land call returns, from the L key or
\* from the flight time check, leaves the drone on the ground and not
\* autonomous.
C6_LandOnlyFromFlying ==
    [][/\ (pc = "keys" /\ hist'.key = "l" /\ ~self.is_flying) => self' = Fresh
       /\ (pc \in {"keys", "flight_time"} /\ Completed(self', "land"))
            => (self.is_flying /\ ~self'.is_flying /\ ~self'.autonomous_mode)]_vars

\* the L key landed the drone
C6_Landed ==
    /\ pc = "battery" /\ hist.key = "l"
    /\ Completed(self, "land")
    /\ ~self.is_flying

\* C7: autonomous_mode is on only while the drone is flying.
C7_AutonomousOnlyFlying == self.autonomous_mode => self.is_flying

\* the A key was handled on the ground
C7_RefusedOnGround ==
    /\ pc = "battery" /\ hist.key = "a"
    /\ ~self.is_flying /\ ~self.autonomous_mode

-----------------------------------------------------------------------------
(* Losing the line *)

RcSent(s) == {s.tello[i].rc : i \in Issued(s, "send_rc_control")}

\* C8: a processed frame without a line, in autonomous flight, leaves
\* autonomous mode on while it is at most the 30th frame in a row without a
\* line and switches it off when it is the 31st.
C8_LineLostTimeout ==
    [][(/\ pc = "frame" /\ pc' = "keys"
        /\ self.is_flying /\ self.autonomous_mode
        /\ ~self'.line_detected)
       => (self'.autonomous_mode <=> hist'.streak <= max_line_lost)]_vars

\* autonomous mode was switched off at the 31st frame in a row without a
\* line, all 31 processed in autonomous flight
C8_ThirtyFirst ==
    /\ pc = "keys"
    /\ hist.degraded /\ hist.auto_run /\ hist.streak = max_line_lost + 1
    /\ self.is_flying /\ ~self.autonomous_mode

\* C9: line_lost_count is the number of processed frames without a line
\* since the last processed frame with one.
C9_LineLostCountIsStreak == self.line_lost_count = hist.streak

\* frames were lost for long, on the ground
C9_LongStreak ==
    /\ hist.streak = max_line_lost + 2
    /\ ~self.is_flying

\* C10: the frame that switches autonomous mode off for a lost line leaves
\* the drone flying and calls neither land nor emergency; from then on, until
\* autonomous mode is switched on again, the velocities are 0 and every
\* velocity command sent is all 0.
C10_GracefulDegrade ==
    [][/\ (pc = "frame" /\ self.autonomous_mode /\ ~self'.autonomous_mode)
            => (/\ self'.is_flying
                /\ Issued(self', "land") = {}
                /\ Issued(self', "emergency") = {})
       /\ hist'.degraded
            => (Velocity(self') = Zero /\ RcSent(self') \subseteq {Zero})]_vars

\* a velocity command was sent in manual flight after the line was given up
\* and found again
C10_HoverAfterDegrade ==
    /\ hist.degraded
    /\ self.is_flying /\ self.line_detected
    /\ RcSent(self) = {Zero}

-----------------------------------------------------------------------------
(* Velocity commands, skipped frames, the connection *)

\* C11: the velocity command sent for a frame is a function of that frame's
\* observation and of the mode: what calculate_movement gives for the
\* observation in autonomous mode, and in manual mode all 0 (what is sent
\* for every frame of a first flight before autonomous mode is switched on).
C11_CommandRecomputed ==
    [][(pc = "frame" /\ pc' = "keys")
       => RcSent(self') \subseteq
            {IF self.autonomous_mode THEN calculate_movement(self') ELSE Zero}]_vars

\* C12: an iteration that gets no frame leaves the object as it was and
\* calls nothing on the drone.
C12_NoFrameNoChange ==
    [][(pc = "frame" /\ pc' = "frame") => self' = Fresh]_vars

\* an iteration got no frame in autonomous flight with velocities set: the
\* flight is past MAX_FLIGHT_TIME at the top of the loop, which the flight
\* time check of a completed iteration never leaves behind
C12_Skipped ==
    /\ pc = "frame"
    /\ self.connected /\ self.is_flying /\ self.autonomous_mode
    /\ self.line_detected /\ Velocity(self) # Zero
    /\ now - self.flight_start_time > MAX_FLIGHT_TIME

\* C13: a velocity command that raises leaves connected FALSE, and while
\* connected is FALSE it stays FALSE and no velocity command is sent.
C13_NoCommandWhenDisconnected ==
    [][/\ Raised(self', "send_rc_control") => ~self'.connected
       /\ ~self.connected
            => (~self'.connected /\ Issued(self', "send_rc_control") = {})]_vars

\* the loop is back at its top, in flight, after a velocity command raised
C13_Disconnected ==
    /\ pc = "frame"
    /\ ~self.connected /\ self.is_flying

-----------------------------------------------------------------------------
(* Flight time, battery warnings *)

\* C15: whenever the drone is flying past MAX_FLIGHT_TIME while the loop
\* runs (and the run has a frame left), land() is eventually called, or the
\* drone stops flying, or the loop is left.
C15_FlightTimeLands ==
    (/\ pc \in {"frame", "keys", "battery", "flight_time"}
     /\ self.is_flying
     /\ now - self.flight_start_time > MAX_FLIGHT_TIME
     /\ self.frames_processed < FairFrames)
    ~> (\/ Issued(self, "land") # {}
        \/ ~self.is_flying
        \/ pc \in {"cleanup", "done"})

\* C16: a battery poll in flight that reads at least EMERGENCY_BATTERY and
\* less than LOW_BATTERY_THRESHOLD changes battery_level and nothing else,
\* and calls nothing on the drone but the read itself.
C16_LowBatteryWarningOnly ==
    [][(/\ pc = "battery"
        /\ self.is_flying
        /\ Completed(self', "get_battery")
        /\ self'.battery_level >= EMERGENCY_BATTERY
        /\ self'.battery_level < LOW_BATTERY_THRESHOLD)
       => /\ Len(self'.tello) = 1
          /\ self' = [self EXCEPT !.battery_level = self'.battery_level,
                                  !.tello = self'.tello]
          /\ pc' = "flight_time"]_vars

\* a poll read exactly EMERGENCY_BATTERY after a higher level, in autonomous
\* flight with velocities set
C16_Warned ==
    /\ pc = "flight_time"
    /\ Completed(self, "get_battery")
    /\ self.battery_level = EMERGENCY_BATTERY
    /\ self.is_flying /\ self.autonomous_mode
    /\ Velocity(self) # Zero

\* C17: a battery read that raises leaves battery_level and every other
\* field as they were, calls nothing else, and the loop goes on to the
\* flight time check.
C17_BatteryReadFailure ==
    [][(pc = "battery" /\ Raised(self', "get_battery"))
       => /\ Len(self'.tello) = 1
          /\ self' = [self EXCEPT !.tello = self'.tello]
          /\ pc' = "flight_time"]_vars

\* a read raised in autonomous flight
C17_ReadRaised ==
    /\ pc = "flight_time"
    /\ Raised(self, "get_battery")
    /\ self.is_flying /\ self.autonomous_mode
    /\ self.battery_level = LOW_BATTERY_THRESHOLD

-----------------------------------------------------------------------------
(* The controller *)

\* C18: when no line is detected calculate_movement returns (0, 0, 0, 0),
\* whatever line_center_x, line_center_y and line_angle hold.
C18_NoLineZero ==
    (pc = "controlled" /\ ~self.line_detected) => Velocity(self) = Zero

\* nothing was detected in an empty frame while the fields hold an earlier
\* line that is outside both dead bands and turned
C18_EmptyMask ==
    /\ pc = "controlled"
    /\ ~self.line_detected
    /\ self.detection_method = "hough"
    /\ self.line_center_x - self.frame_center_x > CENTER_TOLERANCE
    /\ self.line_center_y - self.frame_center_y > CENTER_TOLERANCE
    /\ self.line_angle > ROTATION_THRESHOLD

\* C19: with a line detected and error_x = line_center_x - frame_center_x,
\* the lateral velocity is 0 when |error_x| <= CENTER_TOLERANCE, SIDE_SPEED
\* when error_x > CENTER_TOLERANCE and -SIDE_SPEED when
\* error_x < -CENTER_TOLERANCE.
C19_LateralDeadband ==
    (pc = "controlled" /\ self.line_detected)
    => LET errorX == self.line_center_x - self.frame_center_x
       IN  /\ (errorX <= CENTER_TOLERANCE /\ errorX >= -CENTER_TOLERANCE)
                => self.left_right_velocity = 0
           /\ errorX > CENTER_TOLERANCE => self.left_right_velocity = SIDE_SPEED
           /\ errorX < -CENTER_TOLERANCE => self.left_right_velocity = -SIDE_SPEED

\* the line is exactly CENTER_TOLERANCE right of the centre
C19_OnTheBoundary ==
    /\ pc = "controlled"
    /\ self.line_detected
    /\ self.line_center_x - self.frame_center_x = CENTER_TOLERANCE
    /\ self.left_right_velocity = 0

\* C20: with a line detected and error_y = line_center_y - frame_center_y,
\* the vertical velocity is 0 when |error_y| <= CENTER_TOLERANCE,
\* -VERTICAL_SPEED when error_y > CENTER_TOLERANCE and VERTICAL_SPEED when
\* error_y < -CENTER_TOLERANCE.
C20_VerticalDeadband ==
    (pc = "controlled" /\ self.line_detected)
    => LET errorY == self.line_center_y - self.frame_center_y
       IN  /\ (errorY <= CENTER_TOLERANCE /\ errorY >= -CENTER_TOLERANCE)
                => self.up_down_velocity = 0
           /\ errorY > CENTER_TOLERANCE => self.up_down_velocity = -VERTICAL_SPEED
           /\ errorY < -CENTER_TOLERANCE => self.up_down_velocity = VERTICAL_SPEED

\* the line is below the dead band and the drone descends
C20_Descend ==
    /\ pc = "controlled"
    /\ self.line_detected
    /\ self.line_center_y - self.frame_center_y > CENTER_TOLERANCE
    /\ self.up_down_velocity = -VERTICAL_SPEED

\* C21: with a line detected, the forward velocity under the contour method
\* is FORWARD_SPEED (a line inside both dead bands gives (0, FORWARD_SPEED,
\* 0, 0)); under the hough method it is FORWARD_SPEED when |line_angle| < 45
\* or |line_angle| > 135 and 0 otherwise, at 45 and at 135 included.
C21_ForwardVelocity ==
    (pc = "controlled" /\ self.line_detected)
    => /\ self.detection_method = "contour"
            => /\ self.for_back_velocity = FORWARD_SPEED
               /\ (/\ Abs(self.line_center_x - self.frame_center_x) <= CENTER_TOLERANCE
                   /\ Abs(self.line_center_y - self.frame_center_y) <= CENTER_TOLERANCE)
                    => Velocity(self) = <<0, FORWARD_SPEED, 0, 0>>
       /\ self.detection_method = "hough"
            => self.for_back_velocity =
                 (IF Abs(self.line_angle) < 45 \/ Abs(self.line_angle) > 135
                  THEN FORWARD_SPEED ELSE 0)

\* a segment at exactly -135 degrees under the hough method: no advance
C21_AtTheBoundary ==
    /\ pc = "controlled"
    /\ self.line_detected
    /\ self.detection_method = "hough"
    /\ self.line_angle = -135
    /\ self.for_back_velocity = 0

\* C22: with a line detected, the yaw velocity is 0 under the contour method
\* and under the hough method when |line_angle| <= ROTATION_THRESHOLD; under
\* the hough method with |line_angle| > ROTATION_THRESHOLD it is
\* ROTATION_SPEED for a positive angle and -ROTATION_SPEED for a negative one.
C22_YawVelocity ==
    (pc = "controlled" /\ self.line_detected)
    => /\ self.detection_method = "contour" => self.yaw_velocity = 0
       /\ (self.detection_method = "hough" /\ Abs(self.line_angle) <= ROTATION_THRESHOLD)
            => self.yaw_velocity = 0
       /\ (self.detection_method = "hough" /\ Abs(self.line_angle) > ROTATION_THRESHOLD)
            => /\ self.line_angle > 0 => self.yaw_velocity = ROTATION_SPEED
               /\ self.line_angle < 0 => self.yaw_velocity = -ROTATION_SPEED

\* a segment at -45 degrees under the hough method turns the drone left
C22_TurnLeft ==
    /\ pc = "controlled"
    /\ self.line_detected
    /\ self.detection_method = "hough"
    /\ self.line_angle = -45
    /\ self.yaw_velocity = -ROTATION_SPEED

\* C23: every velocity command sent to the drone has its lateral channel in
\* {-SIDE_SPEED, 0, SIDE_SPEED}, its forward channel in {0, FORWARD_SPEED},
\* its vertical channel in {-VERTICAL_SPEED, 0, VERTICAL_SPEED} and its yaw
\* channel in {-ROTATION_SPEED, 0, ROTATION_SPEED}.
C23_ChannelsWithinSpeeds ==
    \A rc \in RcSent(self) :
        /\ rc[1] \in {-SIDE_SPEED, 0, SIDE_SPEED}
        /\ rc[2] \in {0, FORWARD_SPEED}
        /\ rc[3] \in {-VERTICAL_SPEED, 0, VERTICAL_SPEED}
        /\ rc[4] \in {-ROTATION_SPEED, 0, ROTATION_SPEED}

\* a command with all four channels in use was sent: a line just outside the
\* dead bands, left of and above the centre, at 180 degrees
C23_AllChannels ==
    /\ pc = "sent"
    /\ self.line_center_x - self.frame_center_x = -(CENTER_TOLERANCE + 1)
    /\ <<-SIDE_SPEED, FORWARD_SPEED, VERTICAL_SPEED, ROTATION_SPEED>> \in RcSent(self)

-----------------------------------------------------------------------------
(* Colour and method *)

\* C24: a colour key, a method key, or a call of change_color or
\* switch_detection_method changes selected_color, color_index and
\* detection_method only (is_flying, autonomous_mode, line_lost_count,
\* flight_start_time and battery_level are as before) and calls nothing on
\* the drone; with a name that does not exist it changes nothing.
C24_SwitchKeepsState ==
    [][/\ ((pc = "keys" /\ hist'.key \in SwitchKeys) \/ hist'.key = "request")
            => self' = [self EXCEPT !.tello = <<>>,
                                    !.selected_color = self'.selected_color,
                                    !.color_index = self'.color_index,
                                    !.detection_method = self'.detection_method]
       /\ hist'.key = "bad_request" => self' = Fresh]_vars

\* key H in the third iteration, the first key that is not T or A: the
\* method is hough, the drone flies in autonomous mode and has seen no line
C24_SwitchedInFlight ==
    /\ pc = "battery"
    /\ hist.key = "h"
    /\ self.detection_method = "hough"
    /\ self.frames_processed = 3
    /\ self.is_flying /\ self.autonomous_mode
    /\ self.line_lost_count = 3

\* C25: with red selected and saturation and value inside the red bounds, a
\* pixel is in the mask exactly when its hue is within 0..10 or 170..180: hue
\* 0 and hue 179 are in, hue 90 is out. Red is the only colour with two pairs
\* of bounds, every other colour has one.
C25_RedWraparound ==
    /\ \A c \in KnownColors :
        DOMAIN COLOR_RANGES[c] =
            (IF c = "red" THEN {"lower_1", "upper_1", "lower_2", "upper_2"}
             ELSE {"lower", "upper"})
    /\ (/\ pc = "thresholded"
        /\ self.selected_color = "red"
        /\ self.hsv[2] >= 120 /\ self.hsv[2] <= 255
        /\ self.hsv[3] >= 70 /\ self.hsv[3] <= 255)
       => /\ self.hsv[1] = 0 => self.mask.value = 255
          /\ self.hsv[1] = 179 => self.mask.value = 255
          /\ self.hsv[1] = 90 => self.mask.value = 0
          /\ self.mask.value = 255
                <=> (self.hsv[1] <= 10 \/ self.hsv[1] >= 170)

\* a red pixel of hue 179 is in the mask
C25_Hue179 ==
    /\ pc = "thresholded"
    /\ self.selected_color = "red"
    /\ self.hsv = <<179, 120, 70>>
    /\ self.mask.value = 255

-----------------------------------------------------------------------------
(* Detection *)

\* C26: under the contour method the contours of area below MIN_LINE_AREA
\* are discarded and no other (area MIN_LINE_AREA itself survives); with no
\* survivor no line is detected; otherwise the line detected is the first of
\* the survivors of the greatest area.
C26_ContourSelection ==
    (pc = "detected" /\ self.detection_method = "contour")
    => LET contours == hist.frame.contours
           survivors == {i \in DOMAIN contours : contours[i].m00 >= MIN_LINE_AREA}
           largest == {i \in survivors :
                          \A j \in survivors : contours[j].m00 <= contours[i].m00}
       IN  /\ survivors = {} => ~self.line_detected
           /\ survivors # {}
                => /\ self.line_detected
                   /\ \E i \in largest :
                        /\ \A j \in largest : i <= j
                        /\ self.line_center_x = contours[i].m10 \div contours[i].m00
                        /\ self.line_center_y = contours[i].m01 \div contours[i].m00

\* C27: under the hough method no segment gives no line; otherwise the line
\* detected is a segment of the greatest length, line_center is its midpoint
\* ((x1 + x2) div 2, (y1 + y2) div 2) and line_angle is
\* atan2(y2 - y1, x2 - x1) in degrees.
C27_HoughSelection ==
    (pc = "detected" /\ self.detection_method = "hough")
    => LET lines == hist.frame.lines
       IN  /\ lines = <<>> => ~self.line_detected
           /\ lines # <<>>
                => /\ self.line_detected
                   /\ \E i \in DOMAIN lines :
                        /\ \A j \in DOMAIN lines :
                              SegmentLength2(lines[j]) <= SegmentLength2(lines[i])
                        /\ self.line_center_x = (lines[i][1] + lines[i][3]) \div 2
                        /\ self.line_center_y = (lines[i][2] + lines[i][4]) \div 2
                        /\ self.line_angle =
                              arctan2_deg(lines[i][4] - lines[i][2], lines[i][3] - lines[i][1])

\* the longest of three segments is the last one: its midpoint (100, 149)
\* and its angle of -90 degrees are the line
C27_LongestLast ==
    /\ pc = "detected"
    /\ self.detection_method = "hough"
    /\ hist.frame.lines =
         <<<<500, 500, 440, 440>>, <<100, 100, 200, 100>>, <<100, 200, 100, 99>>>>
    /\ self.line_detected
    /\ self.line_center_x = 100 /\ self.line_center_y = 149
    /\ self.line_angle = -90

-----------------------------------------------------------------------------
(* The keyboard controller *)

\* C28: in the keyboard controller a press of ESC leaves send_rc FALSE in
\* every state, and when the drone is flying and connected it calls
\* emergency, after which (the call having returned) is_flying is FALSE.
C28_KeyboardEmergencyStop ==
    [][(pc = "kb_events" /\ hist'.event = "down" /\ hist'.key = "esc")
       => /\ ~self'.send_rc
          /\ (self.is_flying /\ self.connected)
                => /\ Issued(self', "emergency") # {}
                   /\ Completed(self', "emergency") => ~self'.is_flying]_vars

-----------------------------------------------------------------------------
(* The order of an iteration *)

\* C29: every iteration of the loop reaches the key handling, where ESC is
\* read, whatever get_frame returned and whether or not the drone is
\* connected.
C29_StopCheckedEveryCycle ==
    [][pc = "frame" => pc' = "keys"]_vars

\* C30: an iteration whose battery check calls emergency, or whose flight
\* time check calls land, has sent no velocity command.
C30_SuperviseBeforeEmit ==
    [][(\/ pc = "battery" /\ Issued(self', "emergency") # {}
        \/ pc = "flight_time" /\ Issued(self', "land") # {})
       => ~hist.sent]_vars

-----------------------------------------------------------------------------
(* Throttling, supervision, purity *)

\* C31: the battery is read, and the battery checks are made, only in the
\* battery step of an iteration whose number of processed frames is a
\* multiple of 3 * FPS = 90; every processed frame adds one to that number
\* and nothing else changes it, so no two iterations in a row read it.
C31_BatteryPollThrottled ==
    [][/\ Issued(self', "get_battery") # {} => pc = "battery"
       /\ (pc = "battery" /\ self' # Fresh) => self.frames_processed % (3 * FPS) = 0
       /\ self'.frames_processed =
            self.frames_processed + (IF pc = "frame" /\ pc' = "keys" THEN 1 ELSE 0)]_vars

\* the second read of the battery, at frame 180
C31_SecondPoll ==
    /\ pc = "flight_time"
    /\ Completed(self, "get_battery")
    /\ self.frames_processed = 2 * 3 * FPS

\* C32: a frame processed while the drone is on the ground leaves
\* line_lost_count as it was.
C32_StreakOnlyInFlight ==
    [][(pc = "frame" /\ pc' = "keys" /\ ~self.is_flying)
       => self'.line_lost_count = self.line_lost_count]_vars

\* C33: calculate_movement changes no field of the controller (the step that
\* applies it changes the four velocities, which the main loop assigns, and
\* nothing else), and its result is the same for a controller that agrees on
\* line_detected, the line centre, the frame centre, line_angle and
\* detection_method, whatever its other fields hold.
C33_ControllerPure ==
    [][pc = "control" =>
        LET inputs == [line_detected |-> self.line_detected,
                       line_center_x |-> self.line_center_x,
                       line_center_y |-> self.line_center_y,
                       frame_center_x |-> self.frame_center_x,
                       frame_center_y |-> self.frame_center_y,
                       line_angle |-> self.line_angle,
                       detection_method |-> self.detection_method,
                       left_right_velocity |-> 0, for_back_velocity |-> 0,
                       up_down_velocity |-> 0, yaw_velocity |-> 0]
        IN  /\ self' = SetVelocity(self, Velocity(self'))
            /\ Velocity(self') = calculate_movement(inputs)]_vars

\* the controller has run while the controller held an earlier command and
\* saw no line
C33_StaleCommandDropped ==
    /\ pc = "controlled"
    /\ hist.sent
    /\ ~self.line_detected
    /\ Velocity(self) = Zero
\* C34: send_rc_control is called only by the frame step of a controller
\* that is flying and connected; a land or emergency command that completes
\* inside the loop leaves the controller not flying, and only a takeoff
\* command that completes makes it flying again, so no velocity command
\* lies between a completed land or emergency and the next completed takeoff.
C34_VelocityOnlyInFlight ==
    [][/\ Issued(self', "send_rc_control") # {}
            => (pc = "frame" /\ self.is_flying /\ self.connected)
       /\ (Completed(self', "land") \/ Completed(self', "emergency"))
            => (~self'.is_flying \/ pc' = "done")
       /\ (~self.is_flying /\ self'.is_flying) => Completed(self', "takeoff")]_vars

\* a frame processed on the ground after a flight that ended with a
\* completed emergency: the controller still holds a command and is
\* connected, and nothing is sent
C34_GroundedAfterEmergency ==
    /\ pc = "keys"
    /\ hist.emergency
    /\ ~self.is_flying
    /\ self.connected
    /\ Velocity(self) # Zero
    /\ self.tello = <<>>
\* C35: when the takeoff, land or emergency command raises, is_flying,
\* autonomous_mode, flight_start_time and the four velocities are as they
\* were before the call.
C35_FailedCommandChangesNothing ==
    [][(Raised(self', "takeoff") \/ Raised(self', "land") \/ Raised(self', "emergency"))
        => /\ self'.is_flying = self.is_flying
           /\ self'.autonomous_mode = self.autonomous_mode
           /\ self'.flight_start_time = self.flight_start_time
           /\ Velocity(self') = Velocity(self)]_vars
\* C36: an iteration in autonomous flight sends one command, the one it
\* computed; the command is all zero exactly when no line was detected, and
\* with a line the forward channel is not zero under the contour method and
\* the forward or the yaw channel is not zero under the hough method.
C36_ZeroIffNoLine ==
    pc = "cycled" =>
        /\ Len(self.tello) = 1
        /\ self.tello[1].cmd = "send_rc_control"
        /\ self.tello[1].rc = Velocity(self)
        /\ (Velocity(self) = Zero) <=> ~self.line_detected
        /\ (self.line_detected /\ self.detection_method = "contour")
                => self.for_back_velocity # 0
        /\ (self.line_detected /\ self.detection_method = "hough")
                => (self.for_back_velocity # 0 \/ self.yaw_velocity # 0)

\* a centred line at 45 degrees under the hough method: only the yaw channel
\* is not zero
C36_OnlyYaw ==
    /\ pc = "cycled"
    /\ self.line_detected
    /\ self.detection_method = "hough"
    /\ self.line_angle = 45
    /\ self.tello[1].rc = <<0, 0, 0, ROTATION_SPEED>>
\* C37: the loop is left only for cleanup (by ESC, by the flight time, by an
\* interrupt or an unexpected error) and cleanup is the only way to the end;
\* cleanup issues the land command exactly when the controller is still
\* marked flying and is connected, so after an ESC whose emergency command
\* completed it issues none.
C37_CleanupOnEveryExit ==
    [][/\ (pc \in {"frame", "keys", "battery", "flight_time"}
            /\ pc' \notin {"frame", "keys", "battery", "flight_time"})
                => pc' = "cleanup"
       /\ pc' = "done" => pc = "cleanup"
       /\ pc = "cleanup"
            => /\ pc' = "done"
               /\ Issued(self', "land") # {} <=> (self.is_flying /\ self.connected)
       /\ (pc = "cleanup" /\ hist.key = "esc" /\ hist.emergency)
            => Issued(self', "land") = {}]_vars

\* the run has ended after an emergency command that completed, and cleanup
\* of the connected controller has issued nothing
C37_NoLandAfterEmergency ==
    /\ pc = "done"
    /\ hist.emergency
    /\ self.connected
    /\ ~self.is_flying
    /\ self.tello = <<>>
\* C39: the pixel that was thresholded is within the bounds of at most one
\* of the five colours.
C39_ProfilesDisjoint ==
    pc = "thresholded" =>
        Cardinality({c \in KnownColors : color_mask(self.hsv, c) = 255}) <= 1
\* C40: color_index is one of 0..4, selected_color is the colour at that
\* place of AVAILABLE_COLORS, and five calls of cycle_color in a row give
\* back the controller they started from.
C40_ColorIndexConsistent ==
    /\ self.color_index \in 0..4
    /\ self.selected_color = AVAILABLE_COLORS[self.color_index + 1]
    /\ cycle_color(cycle_color(cycle_color(cycle_color(cycle_color(self))))) = self

\* the key 'c' has cycled from the last colour back to the first
C40_WrappedAround ==
    /\ pc = "battery"
    /\ hist.key = "c"
    /\ self.color_index = 0
    /\ self.selected_color = "white"
\* C38: fed the same frames, keys and outcomes, on the red line and with the
\* contour method, the three variants agree at every step on is_flying and
\* autonomous_mode and on the velocity commands they send.
C38_VariantsAgree ==
    \A v, w \in Variants :
        /\ self[v].is_flying = self[w].is_flying
        /\ self[v].autonomous_mode = self[w].autonomous_mode
        /\ SelectSeq(self[v].tello, LAMBDA c : c.cmd = "send_rc_control")
            = SelectSeq(self[w].tello, LAMBDA c : c.cmd = "send_rc_control")
====
